---- MODULE Spec2Model ----
(***************************************************************************)
(* Two services of an auto-repair shop.                                    *)
(*                                                                         *)
(*   reference_data_service.py : tables services and employees, with       *)
(*       create / get-by-id / delete handlers.                             *)
(*   repair_order_service.py   : tables repair_orders and                  *)
(*       repair_order_services, with create / list / get / update /        *)
(*       delete handlers.  create_repair_order validates the requested     *)
(*       ids against the Reference Data Service with requests.get and      *)
(*       then writes the order row and its association rows in two         *)
(*       commits.                                                          *)
(*                                                                         *)
(* Each handler of the Repair Order Service is a coroutine of one event    *)
(* loop.  create_repair_order is modelled step by step: one step per       *)
(* requests.get and one step per awaited database operation.  The other    *)
(* handlers, which hold one session for one read and at most one write,    *)
(* are one step each.  The Reference Data Service is another process; its  *)
(* handlers are one step each.                                             *)
(*                                                                         *)
(* Columns that are written once at insert and that no handler reads or    *)
(* writes afterwards (client_name, client_phone, car_make, car_model,      *)
(* car_plate, created_at; name, price, duration_minutes; full_name,        *)
(* position) carry no behaviour and are left out of the rows.              *)
(***************************************************************************)
EXTENDS Integers, Sequences, FiniteSets, TLC

\* ------------------------------------------------------------------ bounds
\* largest id the repair_order_services table hands out
MaxAssoc == 2
\* longest service_ids list of a create request
MaxLen == 2

\* ids the services table hands out, and ids a client may name (2 never exists)
ServiceKeys == {1}
ServiceIds  == {1, 2}
\* ids the employees table hands out, which are the ids a client may name
EmployeeIds == {1}
\* ids the repair_orders table hands out, which are the ids a client may name
OrderIds    == {1, 2}

\* create_repair_order requests in flight (one handler at a time is followed
\* step by step; the other handlers run as single steps around it)
Requests == {"r1"}

\* ----------------------------------------------------------- Optional[str]
\* Optional[str]: None is the empty tuple, a string s is <<s>>.
None == <<>>
Some(s) == <<s>>

\* status written by create_repair_order: the literal "Новый" ("New"),
\* transliterated because module strings are ASCII
StatusNew == "Novyj"
\* texts a client may send as status or description ("" included)
Texts == {""}
OptionalTexts == {None} \cup {Some(t) : t \in Texts}

\* ------------------------------------------------------------------- state
VARIABLES
    services,   \* Reference Data Service: ids of the rows of table services
    employees,  \* Reference Data Service: ids of the rows of table employees
    orders,     \* table repair_orders: set of [id, employee_id, status, description]
    assoc,      \* table repair_order_services: set of [id, service_id, repair_order_id]
    pc,         \* per create request: where its handler stands
    req,        \* per create request: the RepairOrderCreate body
    i,          \* per create request: index of the service id being looked up
    obj,        \* per create request: new_repair_order_model, the in-memory ORM object
    resp        \* the last HTTP response either service sent to a client

vars == <<services, employees, orders, assoc, pc, req, i, obj, resp>>
tables == <<services, employees, orders, assoc>>

NoReq == [service_ids |-> <<>>, employee_id |-> 0, description |-> None]
NoObj == [id |-> 0, employee_id |-> 0, status |-> "", description |-> None]
NoBody == [empty |-> TRUE]

\* ----------------------------------------------------------------- helpers
RECURSIVE SetMax(_)
SetMax(S) == IF S = {} THEN 0
             ELSE LET x == CHOOSE y \in S : TRUE
                      m == SetMax(S \ {x})
                  IN IF x > m THEN x ELSE m

\* Integer primary key of a new row: one more than the largest id in the table.
NextId(ids) == SetMax(ids) + 1

Range(s) == {s[k] : k \in DOMAIN s}

\* An HTTP response: the status code, the kind of its message (detail of an
\* HTTPException, "ok" otherwise) and, when it carries repair orders, the
\* body.  The other bodies (a created Service or Employee, the success
\* message of a delete) repeat the request and are left out.
Response(code, detail, body) == [code |-> code, detail |-> detail, body |-> body]

RECURSIVE SortById(_)
\* the rows of S as a list in ascending id order
SortById(S) == IF S = {} THEN <<>>
               ELSE LET lo == CHOOSE x \in S : \A y \in S : x.id <= y.id
                    IN <<lo>> \o SortById(S \ {lo})

RECURSIVE SumLen(_)
SumLen(S) == IF S = {} THEN 0
             ELSE LET x == CHOOSE y \in S : TRUE
                  IN Len(req[x].service_ids) + SumLen(S \ {x})

\* --------------------------------------------------- pydantic request bodies
\* RepairOrderCreate: service_ids, employee_id, optional description.
CreateBodies ==
    {[service_ids |-> s, employee_id |-> e, description |-> d] :
        s \in UNION {[1..n -> ServiceIds] : n \in 0..MaxLen},
        e \in EmployeeIds,
        d \in OptionalTexts}

\* A PUT body as the client sends it: a JSON object with any of the keys
\* status and description, each null or a string.
UpdateJson == UNION {[K -> OptionalTexts] : K \in SUBSET {"status", "description"}}

\* RepairOrderUpdate: a key the body lacks takes its default, None.
RepairOrderUpdate(json) ==
    [status      |-> IF "status" \in DOMAIN json THEN json.status ELSE None,
     description |-> IF "description" \in DOMAIN json THEN json.description ELSE None]

\* the RepairOrderUpdate objects the handler can be called with
UpdateBodies == {RepairOrderUpdate(json) : json \in UpdateJson}

\* ------------------------------------------------ pydantic response schema
\* RepairOrder.serialize_service_ids: the service_id of each element of a list.
serialize_service_ids(services_relationship) ==
    [k \in DOMAIN services_relationship |-> services_relationship[k].service_id]

\* RepairOrder built from an ORM object with from_attributes=True: each field
\* is read from the attribute of the same name, and a field whose attribute
\* the object lacks takes its default.  RepairOrderModel has the attribute
\* services and no attribute service_ids.  (The object is bound once so that
\* it is loaded once.)
RepairOrder(orm) ==
    LET from_attributes(o) ==
            [id          |-> o.id,
             employee_id |-> o.employee_id,
             status      |-> o.status,
             description |-> o.description,
             service_ids |-> serialize_service_ids(
                                IF "service_ids" \in DOMAIN o THEN o.service_ids ELSE <<>>)]
    IN CHOOSE schema \in {from_attributes(o) : o \in {orm}} : TRUE

\* primary keys present in table repair_orders
OrderKeys == {o.id : o \in orders}
\* the row of table repair_orders with this primary key
OrderRow(order_id) == CHOOSE o \in orders : o.id = order_id

\* the relationship RepairOrderModel.services, loaded: the association rows
\* whose repair_order_id is the order's id
LoadServices(order_id) ==
    SortById({a \in assoc : a.repair_order_id = order_id})

\* session.get(RepairOrderModel, id, options=[selectinload(services)])
LoadOrder(order_id) ==
    LET row == OrderRow(order_id)
    IN [id          |-> row.id,
        employee_id |-> row.employee_id,
        status      |-> row.status,
        description |-> row.description,
        services    |-> LoadServices(order_id)]

\* ----------------------------------------------------------------- initial
\* Both databases are empty after /setup and no request is in flight.
Init ==
    /\ services = {}
    /\ employees = {}
    /\ orders = {}
    /\ assoc = {}
    /\ pc = [r \in Requests |-> "idle"]
    /\ req = [r \in Requests |-> NoReq]
    /\ i = [r \in Requests |-> 0]
    /\ obj = [r \in Requests |-> NoObj]
    /\ resp = Response(200, "ok", NoBody)

\* ================================================== Reference Data Service
\* POST /services
create_service ==
    /\ NextId(services) \in ServiceKeys
    /\ services' = services \cup {NextId(services)}
    /\ resp' = Response(200, "ok", NoBody)
    /\ UNCHANGED <<employees, orders, assoc, pc, req, i, obj>>

\* POST /employees
create_employee ==
    /\ NextId(employees) \in EmployeeIds
    /\ employees' = employees \cup {NextId(employees)}
    /\ resp' = Response(200, "ok", NoBody)
    /\ UNCHANGED <<services, orders, assoc, pc, req, i, obj>>

\* GET /services/{service_id}: the status code of the answer
get_service_by_id(service_id) ==
    IF service_id \in services THEN 200 ELSE 404

\* GET /employees/{employee_id}: the status code of the answer
get_employee_by_id(employee_id) ==
    IF employee_id \in employees THEN 200 ELSE 404

\* delete_service without the check for a missing row
delete_service_unchecked(service_id) ==
    /\ services' = services \ {service_id}
    /\ resp' = Response(200, "ok", NoBody)
    /\ UNCHANGED <<employees, orders, assoc, pc, req, i, obj>>

\* DELETE /services/{service_id}
delete_service(service_id) ==
    /\ IF service_id \notin services
       THEN /\ resp' = Response(404, "service_not_found", NoBody)
            /\ UNCHANGED services
       ELSE /\ services' = services \ {service_id}
            /\ resp' = Response(200, "ok", NoBody)
    /\ UNCHANGED <<employees, orders, assoc, pc, req, i, obj>>

\* DELETE /employees/{employee_id}
delete_employee(employee_id) ==
    /\ IF employee_id \notin employees
       THEN /\ resp' = Response(404, "employee_not_found", NoBody)
            /\ UNCHANGED employees
       ELSE /\ employees' = employees \ {employee_id}
            /\ resp' = Response(200, "ok", NoBody)
    /\ UNCHANGED <<services, orders, assoc, pc, req, i, obj>>

\* ==================================================== Repair Order Service
\* requests.get is a blocking call made inside the coroutine: from the first
\* lookup to the last the handler never awaits, so it holds the event loop.
Lookups == {"lookup_service", "lookup_employee"}

\* some other handler holds the event loop, so request r cannot run
LoopHeldAgainst(r) == \E q \in Requests \ {r} : pc[q] \in Lookups
\* some create handler holds the event loop
LoopHeld == \E q \in Requests : pc[q] \in Lookups

\* create requests that have not yet inserted their order row
BeforeOrderCommit == {q \in Requests : pc[q] \in Lookups \cup {"commit_order"}}
\* create requests that have not yet inserted their association rows
BeforeAssocCommit ==
    {q \in Requests : pc[q] \in Lookups \cup {"commit_order", "refresh_order", "commit_services"}}

\* the handler of r ends: the session closes and the response goes out
Finish(r, response) ==
    /\ pc' = [pc EXCEPT ![r] = "idle"]
    /\ req' = [req EXCEPT ![r] = NoReq]
    /\ i' = [i EXCEPT ![r] = 0]
    /\ obj' = [obj EXCEPT ![r] = NoObj]
    /\ resp' = response

\* What requests.get gives: a response with a status code, or no response
\* (a RequestException whose response is None).
Answers(code) == {[received |-> TRUE, status_code |-> code],
                  [received |-> FALSE, status_code |-> 0]}

\* a lookup that never calls raise_for_status
LookupFails_no_raise(answer) == ~answer.received

\* response.raise_for_status() raises; a missing response has raised already
LookupFails(answer) == ~answer.received \/ answer.status_code >= 400

\* an except branch that answers every failed lookup with 500
ValidationError_always_500(answer) ==
    Response(500,
             IF answer.received THEN "reference_error" ELSE "connection_error", NoBody)

\* the except branch: the HTTPException the handler raises for a failed lookup
ValidationError(answer) ==
    IF answer.received
    THEN Response(answer.status_code, "reference_error", NoBody)
    ELSE Response(500, "connection_error", NoBody)

\* the handler starts and issues its first requests.get
create_start(r, body) ==
    /\ pc[r] = "idle"
    /\ ~LoopHeldAgainst(r)
    /\ SetMax(OrderKeys) + Cardinality(BeforeOrderCommit) < SetMax(OrderIds)
    /\ SetMax({a.id : a \in assoc}) + SumLen(BeforeAssocCommit) + Len(body.service_ids)
          <= MaxAssoc
    /\ req' = [req EXCEPT ![r] = body]
    /\ i' = [i EXCEPT ![r] = 1]
    /\ pc' = [pc EXCEPT ![r] =
                IF body.service_ids = <<>> THEN "lookup_employee" ELSE "lookup_service"]
    /\ UNCHANGED <<services, employees, orders, assoc, obj, resp>>

\* the answer to requests.get(.../services/{service_id}) arrives
lookup_service(r) ==
    /\ pc[r] = "lookup_service"
    /\ \E answer \in Answers(get_service_by_id(req[r].service_ids[i[r]])) :
          IF LookupFails(answer)
          THEN Finish(r, ValidationError(answer))
          ELSE /\ i' = [i EXCEPT ![r] = i[r] + 1]
               /\ pc' = [pc EXCEPT ![r] =
                           IF i[r] = Len(req[r].service_ids)
                           THEN "lookup_employee" ELSE "lookup_service"]
               /\ UNCHANGED <<req, obj, resp>>
    /\ UNCHANGED <<services, employees, orders, assoc>>

\* the answer to requests.get(.../employees/{employee_id}) arrives
lookup_employee(r) ==
    /\ pc[r] = "lookup_employee"
    /\ \E answer \in Answers(get_employee_by_id(req[r].employee_id)) :
          IF LookupFails(answer)
          THEN Finish(r, ValidationError(answer))
          ELSE /\ pc' = [pc EXCEPT ![r] = "commit_order"]
               /\ UNCHANGED <<req, i, obj, resp>>
    /\ UNCHANGED <<services, employees, orders, assoc>>

\* RepairOrderModel(...), session.add, await session.commit()
commit_order(r) ==
    /\ pc[r] = "commit_order"
    /\ ~LoopHeldAgainst(r)
    /\ LET row == [id          |-> NextId(OrderKeys),
                   employee_id |-> req[r].employee_id,
                   status      |-> StatusNew,
                   description |-> req[r].description]
       IN /\ orders' = orders \cup {row}
          /\ obj' = [obj EXCEPT ![r] = row]
    /\ pc' = [pc EXCEPT ![r] = "refresh_order"]
    /\ UNCHANGED <<services, employees, assoc, req, i, resp>>

\* an unhandled exception ends the handler with status 500
ServerError == Response(500, "server_error", NoBody)

\* await session.refresh(new_repair_order_model): the columns are read again;
\* a row that is gone raises
refresh_order(r) ==
    /\ pc[r] = "refresh_order"
    /\ ~LoopHeldAgainst(r)
    /\ IF obj[r].id \in OrderKeys
       THEN /\ obj' = [obj EXCEPT ![r] = OrderRow(obj[r].id)]
            /\ pc' = [pc EXCEPT ![r] = "commit_services"]
            /\ UNCHANGED <<req, i, resp>>
       ELSE Finish(r, ServerError)
    /\ UNCHANGED <<services, employees, orders, assoc>>

\* the association rows the second commit inserts, one per requested id
NewAssocRows(r) ==
    {[id              |-> SetMax({a.id : a \in assoc}) + k,
      service_id      |-> req[r].service_ids[k],
      repair_order_id |-> obj[r].id] : k \in DOMAIN req[r].service_ids}

\* the loop of session.add and the second await session.commit().  The
\* foreign key repair_order_id is not enforced by the default database, so
\* the rows go in even when the order row is gone.
commit_services(r) ==
    /\ pc[r] = "commit_services"
    /\ ~LoopHeldAgainst(r)
    /\ assoc' = assoc \cup NewAssocRows(r)
    /\ pc' = [pc EXCEPT ![r] = "refresh_services"]
    /\ UNCHANGED <<services, employees, orders, req, i, obj, resp>>

\* a failure handler that takes the order row back out
create_fail_compensating(r) ==
    /\ pc[r] \in {"refresh_order", "commit_services"}
    /\ ~LoopHeldAgainst(r)
    /\ Finish(r, ServerError)
    /\ orders' = {o \in orders : o.id # obj[r].id}
    /\ UNCHANGED <<services, employees, assoc>>

\* An awaited database operation between the two commits raises (the refresh
\* of line 158 or the commit of line 166: storage error, enforced foreign
\* key).  Nothing catches it: the session rolls back what is not committed
\* and the handler ends.
create_fail(r) ==
    /\ pc[r] \in {"refresh_order", "commit_services"}
    /\ ~LoopHeldAgainst(r)
    /\ Finish(r, ServerError)
    /\ UNCHANGED <<services, employees, orders, assoc>>

\* await session.refresh(model, attribute_names=["services"]) and the return
refresh_services(r) ==
    /\ pc[r] = "refresh_services"
    /\ ~LoopHeldAgainst(r)
    /\ IF obj[r].id \in OrderKeys
       THEN Finish(r, Response(200, "ok",
                      RepairOrder([id          |-> obj[r].id,
                                   employee_id |-> obj[r].employee_id,
                                   status      |-> obj[r].status,
                                   description |-> obj[r].description,
                                   services    |-> LoadServices(obj[r].id)])))
       ELSE Finish(r, ServerError)
    /\ UNCHANGED <<services, employees, orders, assoc>>

\* GET /repair-orders
get_all_repair_orders ==
    /\ ~LoopHeld
    /\ resp' = Response(200, "ok",
                        [items |-> {RepairOrder(LoadOrder(k)) : k \in OrderKeys}])
    /\ UNCHANGED <<services, employees, orders, assoc, pc, req, i, obj>>

\* GET /repair-orders/{repair_order_id}
get_repair_order_by_id(repair_order_id) ==
    /\ ~LoopHeld
    /\ resp' = IF repair_order_id \in OrderKeys
               THEN Response(200, "ok",
                             RepairOrder(LoadOrder(repair_order_id)))
               ELSE Response(404, "order_not_found", NoBody)
    /\ UNCHANGED <<services, employees, orders, assoc, pc, req, i, obj>>

\* an update that assigns both columns whatever the request holds
ApplyUpdate_assign_all(row, repair_order_update) ==
    [row EXCEPT
       !.status = IF repair_order_update.status # None
                  THEN repair_order_update.status[1] ELSE @,
       !.description = repair_order_update.description]

\* an update that tests the fields for truth instead of for None
ApplyUpdate_truthy(row, repair_order_update) ==
    [row EXCEPT
       !.status = IF repair_order_update.status \notin {None, Some("")}
                  THEN repair_order_update.status[1] ELSE @,
       !.description = IF repair_order_update.description \notin {None, Some("")}
                       THEN repair_order_update.description ELSE @]

\* lines 209-212: a field of the update that is not None overwrites the column
ApplyUpdate(row, repair_order_update) ==
    [row EXCEPT
       !.status = IF repair_order_update.status # None
                  THEN repair_order_update.status[1] ELSE @,
       !.description = IF repair_order_update.description # None
                       THEN repair_order_update.description ELSE @]

\* PUT /repair-orders/{repair_order_id}
update_repair_order(repair_order_id, repair_order_update) ==
    /\ ~LoopHeld
    /\ IF repair_order_id \notin OrderKeys
       THEN /\ resp' = Response(404, "order_not_found", NoBody)
            /\ UNCHANGED orders
       ELSE \E stored \in {OrderRow(repair_order_id)} :
            \E row \in {ApplyUpdate(stored, repair_order_update)} :
               /\ orders' = (orders \ {stored}) \cup {row}
               /\ resp' = Response(200, "ok",
                                   RepairOrder([id          |-> row.id,
                                                employee_id |-> row.employee_id,
                                                status      |-> row.status,
                                                description |-> row.description,
                                                services    |-> LoadServices(row.id)]))
    /\ UNCHANGED <<services, employees, assoc, pc, req, i, obj>>

\* What the flush of session.delete(repair_order) does to the association
\* rows of the order.  The relationship services has no delete cascade, so
\* the unit of work sets repair_order_id of each child row to NULL; the column
\* is Mapped[int], NOT NULL, and the database rejects the UPDATE.
DeleteRejected(repair_order_id) ==
    \E a \in assoc : a.repair_order_id = repair_order_id

\* DELETE /repair-orders/{repair_order_id}
delete_repair_order(repair_order_id) ==
    /\ ~LoopHeld
    /\ IF repair_order_id \notin OrderKeys
       THEN /\ resp' = Response(404, "order_not_found", NoBody)
            /\ UNCHANGED orders
       ELSE IF DeleteRejected(repair_order_id)
       THEN /\ resp' = Response(500, "integrity_error", NoBody)
            /\ UNCHANGED orders
       ELSE /\ orders' = orders \ {OrderRow(repair_order_id)}
            /\ resp' = Response(200, "ok", NoBody)
    /\ UNCHANGED <<services, employees, assoc, pc, req, i, obj>>

\* ------------------------------------------------------------ specification
Next ==
    \/ create_service
    \/ create_employee
    \/ \E service_id \in ServiceIds : delete_service(service_id)
    \/ \E employee_id \in EmployeeIds : delete_employee(employee_id)
    \/ \E r \in Requests, body \in CreateBodies : create_start(r, body)
    \/ \E r \in Requests : lookup_service(r)
    \/ \E r \in Requests : lookup_employee(r)
    \/ \E r \in Requests : commit_order(r)
    \/ \E r \in Requests : refresh_order(r)
    \/ \E r \in Requests : commit_services(r)
    \/ \E r \in Requests : create_fail(r)
    \/ \E r \in Requests : refresh_services(r)
    \/ get_all_repair_orders
    \/ \E id \in OrderIds : get_repair_order_by_id(id)
    \/ \E id \in OrderIds, update \in UpdateBodies : update_repair_order(id, update)
    \/ \E id \in OrderIds : delete_repair_order(id)

Spec == Init /\ [][Next]_vars

\* ================================================================== claims
\* the service id that request r is looking up
LookedUpService(r) == req[r].service_ids[i[r]]

\* C1: a create request whose validation fails persists nothing.  From its
\* start to the end of validation no step changes repair_orders or
\* repair_order_services; a lookup of an id that has no row ends the request
\* at once with an error status; and the request leaves validation either
\* failed or with every lookup answered 200.
C1_FailedValidationPersistsNothing ==
    [][\A r \in Requests :
         /\ (pc[r] \in Lookups \/ pc'[r] \in Lookups) => UNCHANGED <<orders, assoc>>
         /\ (lookup_service(r) /\ LookedUpService(r) \notin services)
               => (pc'[r] = "idle" /\ resp'.code # 200
                   /\ resp'.detail \in {"reference_error", "connection_error"})
         /\ (lookup_employee(r) /\ req[r].employee_id \notin employees)
               => (pc'[r] = "idle" /\ resp'.code # 200
                   /\ resp'.detail \in {"reference_error", "connection_error"})
         /\ (pc[r] \in Lookups /\ pc'[r] = "idle")
               => (resp'.code # 200 /\ UNCHANGED <<orders, assoc>>)
      ]_vars

\* a create request naming a valid and an invalid id has failed while both
\* tables hold rows
C1_Witness ==
    /\ resp.detail = "reference_error"
    /\ resp.code = 404
    /\ orders # {}
    /\ assoc # {}
    /\ services # {}

\* C2 (as claimed): a create request whose lookups all succeed stores its
\* order with status "New", and its response shows the status the handler
\* holds and a service_ids list with exactly the requested service ids.
C2_ReturnsRequestedServiceIds ==
    [][\A r \in Requests :
         /\ commit_order(r)
               => (obj'[r].status = StatusNew /\ obj'[r] \in orders')
         /\ (refresh_services(r) /\ resp'.code = 200)
               => /\ resp'.body.status = obj[r].status
                  /\ Range(resp'.body.service_ids) = Range(req[r].service_ids)
      ]_vars

\* the step is a successful PUT /repair-orders/{id} with this parsed body
UpdateStep(id, update) ==
    /\ resp'.code = 200
    /\ "status" \in DOMAIN resp'.body
    /\ resp'.body.id = id
    /\ update_repair_order(id, update)

\* a PUT body that gives status a value and omits description
StatusOnly == {[status |-> Some(t)] : t \in Texts}

\* C3: an update of an existing order that gives only status changes the
\* status column of that row and nothing else: the row's other columns, the
\* other rows and the association rows stay, and get-by-id afterwards shows
\* the new status with the old description.
C3_StatusOnlyUpdate ==
    [][\A id \in OrderIds, json \in StatusOnly :
         UpdateStep(id, RepairOrderUpdate(json)) =>
            \A before \in {OrderRow(id)}, found \in {RepairOrder(LoadOrder(id))'} :
               /\ orders' = (orders \ {before})
                              \cup {[before EXCEPT !.status = json.status[1]]}
               /\ UNCHANGED <<assoc, services, employees>>
               /\ found.status = json.status[1]
               /\ found.description = before.description
      ]_vars

\* a status-only update has changed the status of an order that has a
\* description, while another order exists
C3_Witness ==
    /\ resp.code = 200
    /\ "status" \in DOMAIN resp.body
    /\ resp.body.status = ""
    /\ resp.body.description # None
    /\ Cardinality(orders) = 2
    /\ \E o \in orders : o.id = resp.body.id /\ o.status = "" /\ o.description # None

\* the value of a key of a PUT body, None when the body lacks the key
Given(json, key) == IF key \in DOMAIN json THEN json[key] ELSE None

\* C4 (as claimed): a field present in the body, whatever its value, becomes
\* the stored value; an absent field leaves the stored value.
C4_PresentFieldOverwrites ==
    [][\A id \in OrderIds, update \in UpdateBodies :
         UpdateStep(id, update) =>
            \A before \in {OrderRow(id)}, after \in {OrderRow(id)'} :
            \A json \in UpdateJson : RepairOrderUpdate(json) = update =>
               /\ "status" \in DOMAIN json => Some(after.status) = json.status
               /\ "status" \notin DOMAIN json => after.status = before.status
               /\ "description" \in DOMAIN json => after.description = json.description
               /\ "description" \notin DOMAIN json
                     => after.description = before.description
      ]_vars

\* C4 (amended): a field present with a string, the empty string included,
\* becomes the stored value; a field that is absent or null leaves the
\* stored value.
C4_NonNullFieldOverwrites ==
    [][\A id \in OrderIds, update \in UpdateBodies :
         UpdateStep(id, update) =>
            \A before \in {OrderRow(id)}, after \in {OrderRow(id)'} :
            \A json \in UpdateJson : RepairOrderUpdate(json) = update =>
               /\ after.status =
                     IF Given(json, "status") # None
                     THEN Given(json, "status")[1] ELSE before.status
               /\ after.description =
                     IF Given(json, "description") # None
                     THEN Given(json, "description") ELSE before.description
      ]_vars

\* an update has stored the empty string as status and as description
C4_Witness ==
    /\ resp.code = 200
    /\ "status" \in DOMAIN resp.body
    /\ resp.body.status = ""
    /\ resp.body.description = Some("")

\* C5: a lookup that ends the create request ends it with the status code of
\* the answer when an answer came (404, the id having no row) and with 500
\* when none came; the response is never a success.
C5_LookupFailureStatus ==
    [][\A r \in Requests :
         /\ (lookup_service(r) /\ pc'[r] = "idle")
               => \/ /\ resp'.detail = "reference_error"
                     /\ resp'.code = get_service_by_id(LookedUpService(r))
                     /\ resp'.code = 404
                  \/ /\ resp'.detail = "connection_error"
                     /\ resp'.code = 500
         /\ (lookup_employee(r) /\ pc'[r] = "idle")
               => \/ /\ resp'.detail = "reference_error"
                     /\ resp'.code = get_employee_by_id(req[r].employee_id)
                     /\ resp'.code = 404
                  \/ /\ resp'.detail = "connection_error"
                     /\ resp'.code = 500
      ]_vars

\* a create request has failed with 500 for want of an answer although the
\* ids it could have named exist
C5_Witness ==
    /\ resp.detail = "connection_error"
    /\ resp.code = 500
    /\ services # {}
    /\ employees # {}

\* C6: a delete of an id that has no row, in any of the three tables,
\* answers 404 and changes no table.
C6_DeleteMissingIsNotFound ==
    [][/\ \A id \in ServiceIds :
            (id \notin services /\ delete_service(id))
               => (resp'.code = 404 /\ UNCHANGED tables)
       /\ \A id \in EmployeeIds :
            (id \notin employees /\ delete_employee(id))
               => (resp'.code = 404 /\ UNCHANGED tables)
       /\ \A id \in OrderIds :
            (id \notin OrderKeys /\ delete_repair_order(id))
               => (resp'.code = 404 /\ UNCHANGED tables)
      ]_vars

\* a delete has answered 404 while every table holds rows
C6_Witness ==
    /\ resp.detail = "service_not_found"
    /\ resp.code = 404
    /\ services # {}
    /\ employees # {}
    /\ orders # {}
    /\ assoc # {}

\* C7 (as claimed): a delete of an existing order, with or without
\* association rows, succeeds and removes the row, so that get-by-id no
\* longer finds it.
C7_DeleteExistingSucceeds ==
    [][\A id \in OrderIds :
         (id \in OrderKeys /\ delete_repair_order(id))
            => (resp'.code = 200 /\ id \notin OrderKeys')
      ]_vars

\* the create requests whose in-memory order has this id
Creators(order_id) == {r \in Requests : obj[r].id = order_id}

\* C8: creation is two commits.  The first inserts the order row and no
\* association row, the second inserts association rows and no order row.  A
\* request that fails between them answers 500 and leaves both tables as
\* they are, so its order row stays without the rows it asked for.  Once no
\* create request is working on an order, no step adds association rows to
\* it, and only a delete request removes it.
C8_CreateIsNotAtomic ==
    [][/\ \A r \in Requests :
            /\ commit_order(r) => (assoc' = assoc /\ orders' # orders)
            /\ commit_services(r) => orders' = orders
            /\ (pc[r] \in {"refresh_order", "commit_services"} /\ pc'[r] = "idle")
                  => (resp'.code = 500 /\ UNCHANGED <<orders, assoc>>)
       /\ \A o \in orders :
            Creators(o.id) = {}
               => /\ LoadServices(o.id)' = LoadServices(o.id)
                  /\ o.id \notin OrderKeys' => delete_repair_order(o.id)
      ]_vars

\* a create request has failed between its commits and its order row is
\* stored without association rows
C8_Witness ==
    /\ resp = ServerError
    /\ \E o \in orders : LoadServices(o.id) = <<>> /\ o.status = StatusNew
    /\ \A r \in Requests : pc[r] = "idle"

\* C9 (as claimed): when the order row is committed its employee_id has a row
\* in the Reference Data Service, and when the association rows are
\* committed each service_id has one.
C9_ReferencesExistAtCommit ==
    [][\A r \in Requests :
         /\ commit_order(r) => req[r].employee_id \in employees
         /\ commit_services(r) => Range(req[r].service_ids) \subseteq services
      ]_vars

\* C10 (as claimed): while a create request waits for the answer of a
\* lookup, the other handlers of the Repair Order Service can run.
C10_OthersRunDuringLookup ==
    \A r \in Requests :
       pc[r] \in Lookups
          => /\ ENABLED get_all_repair_orders
             /\ \A id \in OrderIds :
                   /\ ENABLED get_repair_order_by_id(id)
                   /\ ENABLED delete_repair_order(id)
                   /\ \A update \in UpdateBodies :
                         ENABLED update_repair_order(id, update)

====
